---- MODULE Spec2Model ----
(***************************************************************************)
(* Model of aws_glacier_manager: the resumable multipart upload of         *)
(* glacier_io.py (MultipartChunk, MultipartUpload, VaultStorage), the      *)
(* stream cipher of encryption.py and the key derivation of encryption.py. *)
(*                                                                         *)
(* Python's None is the empty tuple <<>>, a present value v is <<v>>.      *)
(* The Glacier client (boto3) and the hash / cipher primitives are outside *)
(* the repository: a backend call answers with any response its contract   *)
(* allows or raises; the primitives are modelled by injective stand-ins.   *)
(***************************************************************************)
EXTENDS Integers, Sequences, FiniteSets, TLC

VARIABLES
    up,          \* the MultipartUpload object (uploader)
    stack,       \* call stack, innermost frame first; <<>> when no call runs
    idx,         \* MultipartUpload.upload: position of the for loop (0 = not entered)
    loop_count,  \* MultipartUpload.upload_loop: loop_count
    n_tries,     \* MultipartUpload.upload_loop: n_tries
    lpc,         \* MultipartUpload.upload_loop: "test" or "after_upload"
    wpc,         \* VaultStorage._upload_from_uploader: position in the try block
    plan,        \* MultipartChunk.split_file: locals cur_position and chunks
    exc,         \* the exception that is propagating or reached the caller
    ret,         \* value returned by the last _upload_from_uploader
    calls,       \* backend operations issued since the object was built
    dumps,       \* snapshots printed by VaultStorage.dump_uploader
    ncalls,      \* number of calls the environment has made
    top,         \* the method the environment invoked last
    fail,        \* history: error and snapshot at the moment of the last raise
    pass0,       \* history: completed flags and call count when the last upload() pass began
    restored     \* history: the snapshot the object was restored from

upvars == <<up, stack, idx, loop_count, n_tries, lpc, wpc, plan, exc, ret,
            calls, dumps, ncalls, top, fail, pass0, restored>>

\* the stream cipher (encryption.py): one encrypt_stream run whose output is
\* written to a buffer, followed by one decrypt_stream run, or one sign_stream
\* or verify_stream call, over that buffer or over a changed copy of it
VARIABLES
    cin,             \* inputs: plaintext, read_total, secret key, auth key
    enc,             \* the encrypt_stream generator: position, locals, exception
    enc_chunks,      \* the ciphertext chunks it has yielded
    last_signature,  \* CryptoHandler._last_signature
    dec,             \* the decrypt_stream generator
    dec_chunks,      \* the plaintext chunks it has yielded
    checked          \* the outcome of a sign_stream or verify_stream call

cvars == <<cin, enc, enc_chunks, last_signature, dec, dec_chunks, checked>>

\* key derivation (encryption.py, datatypes.py)
VARIABLES
    setups,   \* the DerivedKeySetup objects that exist, by object identity
    derived   \* history: the calls of create_keys_from_password and their results

kvars == <<setups, derived>>

\* the catalog check of a file's recorded chunks
VARIABLES
    stored,   \* the chunks recorded for a file and the size of the file
    verdict   \* how verify_chunk_ranges ended: "none" before it ran

vvars == <<stored, verdict>>

vars == <<upvars, cvars, kvars, vvars>>

\* what the actions of one part of the program leave alone
notup == <<cvars, kvars, vvars>>
notcipher == <<upvars, kvars, vvars>>
notkdf == <<upvars, cvars, vvars>>
notcatalog == <<upvars, cvars, kvars>>

----------------------------------------------------------------------------
(* Bounds of the model and constants of the program *)

MaxCalls == 2        \* calls the environment makes in one run
MaxPlanned == 3      \* iterations of the split_file loop that are followed
FileSize == 3        \* size in bytes of the file being uploaded
BlockSize == 2       \* part size of the restored sessions
DEFAULT_N_TRIES == 3
DEFAULT_BLOCK == 2 * 1024 * 1024
MaxBlocks == 2       \* the plaintexts hold up to MaxBlocks full sub-chunks
MaxDerive == 2       \* calls of create_keys_from_password in one run
MaxStored == 3       \* chunks recorded for one file
MaxOffset == 3       \* largest offset and largest file size in the catalog
CHUNK_SIZE == 16 * 1024
OVERHEAD == 40       \* nonce and authenticator that SecretBox adds to a chunk
NONCE_SIZE == 24
MAC_SIZE == OVERHEAD - NONCE_SIZE

None == <<>>
Some(x) == <<x>>

Min(a, b) == IF a < b THEN a ELSE b

\* the files on disk, by path: the one the sessions upload, an empty one, one
\* of two full parts, and one as large as a chunk of the cipher
FileSizes == [file |-> FileSize, empty |-> 0, even |-> 2 * BlockSize, big |-> CHUNK_SIZE]

\* os.stat(filepath).st_size and the bytes of the file
get_file_size(filepath) == FileSizes[filepath]
FileBytes(filepath) == [i \in 1..get_file_size(filepath) |-> i % 256]

\* f_in.seek(start); f_in.read(n)
ReadAt(filepath, start, n) ==
    LET size == get_file_size(filepath)
        last == Min(start + n, size)
    IN  IF start >= size \/ n <= 0 THEN <<>>
        ELSE SubSeq(FileBytes(filepath), start + 1, last)

\* botocore's calculate_tree_hash: an injective stand-in
calculate_tree_hash(data) == <<Len(data)>> \o data

\* the snapshots carry the id "u1"; a new initiate call is given a new id
UploadIds == {"u2"}
ArchiveIds == {"a1"}
WrongHash == <<-1>>

----------------------------------------------------------------------------
(* encryption.py: the primitives and the chunked reader *)

RECURSIVE Cat(_)
Cat(q) == IF q = <<>> THEN <<>> ELSE Head(q) \o Cat(Tail(q))

\* int.from_bytes(base, 'big') + index, digit by digit from the last byte;
\* carry is what is left over above the first byte
RECURSIVE AddBig(_, _, _)
AddBig(bytes, k, carry) ==
    IF k = 0 THEN [val |-> bytes, carry |-> carry]
    ELSE AddBig([bytes EXCEPT ![k] = (bytes[k] + carry) % 256], k - 1,
                (bytes[k] + carry) \div 256)

\* variant: the index is not added
_chunk_nonce_fixed(base, index) == [raised |-> "none", val |-> base]

\* int.to_bytes raises OverflowError when the sum needs more than `size` bytes
_chunk_nonce(base, index) ==
    LET size == NONCE_SIZE
        sum == AddBig(base, size, index)
    IN  IF sum.carry > 0
        THEN [raised |-> "OverflowError", val |-> <<>>]
        ELSE [raised |-> "none", val |-> sum.val]

\* a digest of a byte string: its length, first, middle and last byte
Digest(bytes) ==
    IF bytes = <<>> THEN 0
    ELSE Len(bytes) + 3 * bytes[1] + 5 * bytes[Len(bytes)] + 7 * bytes[(Len(bytes) + 1) \div 2]

\* nacl SecretBox: nonce, authenticator and the masked bytes (a stand-in for
\* XSalsa20-Poly1305 that keeps its layout and its dependence on key and nonce)

Authenticator(key, nonce, masked) ==
    [k \in 1..MAC_SIZE |-> (key + nonce[NONCE_SIZE] + Digest(masked) + k) % 256]

SecretBox_encrypt(key, plaintext, nonce) ==
    LET masked == [i \in 1..Len(plaintext) |->
                      (plaintext[i] + key + nonce[NONCE_SIZE] + i) % 256]
    IN  nonce \o Authenticator(key, nonce, masked) \o masked

SecretBox_decrypt(key, ciphertext) ==
    IF Len(ciphertext) < OVERHEAD
    THEN [raised |-> "CryptoError", val |-> <<>>]
    ELSE LET nonce == SubSeq(ciphertext, 1, NONCE_SIZE)
             auth == SubSeq(ciphertext, NONCE_SIZE + 1, OVERHEAD)
             n == Len(ciphertext) - OVERHEAD
             masked == SubSeq(ciphertext, OVERHEAD + 1, Len(ciphertext))
         IN  IF auth # Authenticator(key, nonce, masked)
             THEN [raised |-> "CryptoError", val |-> <<>>]
             ELSE [raised |-> "none",
                   val |-> [i \in 1..n |->
                       (ciphertext[OVERHEAD + i] + 4 * 256 - key - nonce[NONCE_SIZE] - i)
                           % 256]]

\* one round of the loop of _read_in_chunks on a stream at position pos:
\* the data read (empty: the loop breaks) and the new pos and read_yet
_read_in_chunks(stream, pos, read_yet, chunk_size, read_total) ==
    LET size == IF chunk_size = None THEN CHUNK_SIZE ELSE chunk_size[1]
        read_size == IF read_total # None
                     THEN Min(read_total[1] - read_yet, size)
                     ELSE size
        last == Min(pos + read_size, Len(stream))
        data == IF read_size <= 0 THEN <<>> ELSE SubSeq(stream, pos + 1, last)
    IN  [data |-> data, pos |-> pos + Len(data),
         read_yet |-> IF data = <<>> THEN read_yet ELSE read_yet + read_size]

\* HMAC-SHA512 (cryptography): a running digest of the chunks fed to it
HmacDigest(chunk) == Digest(chunk)

get_auth_hmac_from_key(auth_key) == [dummy |-> FALSE, key |-> auth_key, acc |-> 0]

HMACDummy == [dummy |-> TRUE, key |-> 0, acc |-> 0]

Hmac_update(h, chunk) ==
    IF h.dummy THEN h ELSE [h EXCEPT !.acc = (h.acc * 131 + HmacDigest(chunk) + 1) % 65521]

Hmac_finalize(h) ==
    IF h.dummy THEN None
    ELSE Some(<<(h.acc + h.key) % 256, ((h.acc + h.key) \div 256) % 256>>)

\* binascii.hexlify / unhexlify: two hex digits (0..15) for each byte
hexlify(bytes) ==
    [i \in 1..(2 * Len(bytes)) |->
        IF i % 2 = 1 THEN bytes[(i + 1) \div 2] \div 16 ELSE bytes[i \div 2] % 16]

unhexlify(digits) ==
    [i \in 1..(Len(digits) \div 2) |-> 16 * digits[2 * i - 1] + digits[2 * i]]

\* CryptoHandler.init_hmac
init_hmac(auth_key, force, dummy) ==
    IF force /\ dummy
    THEN [raised |-> "AttributeError", val |-> HMACDummy]
    ELSE IF auth_key # None /\ ~dummy
         THEN [raised |-> "none", val |-> get_auth_hmac_from_key(auth_key[1])]
         ELSE IF force
              THEN [raised |-> "RuntimeError", val |-> HMACDummy]
              ELSE [raised |-> "none", val |-> HMACDummy]

\* the last_signature setter
SetLastSignature(auth_key, val) ==
    IF auth_key # None THEN Some(hexlify(val[1])) ELSE None

\* variant: the overhead of the cipher is not taken off
get_unenc_block_size_same(enc_block_size) ==
    IF enc_block_size % CHUNK_SIZE # 0
    THEN [raised |-> "ValueError", val |-> 0]
    ELSE [raised |-> "none", val |-> enc_block_size]

\* variant: a size that is not aligned is rounded down instead of refused
get_unenc_block_size_lenient(enc_block_size) ==
    [raised |-> "none",
     val |-> (enc_block_size \div CHUNK_SIZE) * (CHUNK_SIZE - OVERHEAD)]

\* CryptoHandler.get_unenc_block_size
get_unenc_block_size(enc_block_size) ==
    IF enc_block_size % CHUNK_SIZE # 0
    THEN [raised |-> "ValueError", val |-> 0]
    ELSE [raised |-> "none",
          val |-> (enc_block_size \div CHUNK_SIZE) * (CHUNK_SIZE - OVERHEAD)]

----------------------------------------------------------------------------
(* MultipartChunk *)

\* assert end_loc - start_loc < block_size
ChunkInitAssert(block_size, start_loc, end_loc) == end_loc - start_loc < block_size

MultipartChunk_init(filepath, block_size, start_loc, end_loc, crypto_handler) ==
    [filepath |-> filepath, block_size |-> block_size,
     start_loc |-> start_loc, end_loc |-> end_loc,
     completed |-> FALSE,
     _crypto_handler |-> crypto_handler,
     _encrypted |-> crypto_handler # None,
     _checksum |-> None, _data |-> None]

Chunk_to_dict(c) ==
    [filepath |-> c.filepath, block_size |-> c.block_size,
     start_loc |-> c.start_loc, end_loc |-> c.end_loc,
     completed |-> c.completed, _encrypted |-> c._encrypted,
     _checksum |-> c._checksum]

\* the crypto_handler setter refuses a handler on a chunk that is not encrypted
\* variant: a restored chunk is incomplete again, whatever the snapshot says
Chunk_from_dict_forgets(d, crypto_handler) ==
    [raised |-> "none",
     val |-> [MultipartChunk_init(d.filepath, d.block_size, d.start_loc,
                                  d.end_loc, None)
                EXCEPT !._checksum = d._checksum, !._encrypted = d._encrypted]]

Chunk_from_dict(d, crypto_handler) ==
    LET inst0 == MultipartChunk_init(d.filepath, d.block_size, d.start_loc,
                                     d.end_loc, None)
        inst1 == [inst0 EXCEPT !.completed = d.completed,
                               !._checksum = d._checksum,
                               !._encrypted = d._encrypted]
    IN  IF crypto_handler # None
        THEN IF ~inst1._encrypted
             THEN [raised |-> "SetterError", val |-> inst1]
             ELSE [raised |-> "none",
                   val |-> [inst1 EXCEPT !._crypto_handler = crypto_handler]]
        ELSE [raised |-> "none", val |-> inst1]

\* the crypto_handler getter: for an encrypted chunk the condition reads
\* self.crypto_handler again, which recurses until RecursionError
Chunk_crypto_handler(c) ==
    IF c._encrypted
    THEN [raised |-> "RecursionError", val |-> None]
    ELSE [raised |-> "none", val |-> c._crypto_handler]

\* variant: one byte less is read from the file
Chunk_data_short(c) ==
    IF c._data # None
    THEN [raised |-> "none", chunk |-> c, val |-> c._data[1]]
    ELSE IF c._encrypted
         THEN [raised |-> Chunk_crypto_handler(c).raised, chunk |-> c, val |-> <<>>]
         ELSE LET d == ReadAt(c.filepath, c.start_loc, c.block_size - 1)
              IN  [raised |-> "none", chunk |-> [c EXCEPT !._data = Some(d)], val |-> d]

\* the data property: the buffer is filled on first access
Chunk_data(c) ==
    IF c._data # None
    THEN [raised |-> "none", chunk |-> c, val |-> c._data[1]]
    ELSE IF c._encrypted
         THEN [raised |-> Chunk_crypto_handler(c).raised, chunk |-> c, val |-> <<>>]
         ELSE LET d == ReadAt(c.filepath, c.start_loc, c.block_size)
              IN  [raised |-> "none", chunk |-> [c EXCEPT !._data = Some(d)], val |-> d]

\* the checksum property (c is the chunk after its data was fetched)
Chunk_checksum(c) ==
    LET c1 == IF c._checksum = None
              THEN [c EXCEPT !._checksum = Some(calculate_tree_hash(Chunk_data(c).val))]
              ELSE c
        c2 == IF c1.completed THEN [c1 EXCEPT !._data = None] ELSE c1
    IN  [chunk |-> c2, val |-> c2._checksum[1]]

Chunk_pos_range(c) == <<c.start_loc, c.end_loc>>

\* variant: the buffer is kept
Chunk_finalize_keeps_data(c) == [c EXCEPT !.completed = TRUE]

Chunk_finalize(c) == [c EXCEPT !.completed = TRUE, !._data = None]

----------------------------------------------------------------------------
(* MultipartUpload *)

NoResponses == [initialize |-> None, upload |-> None, finalize |-> None]

MultipartUpload_init(vault_name, filepath, block_size, description, crypto_handler) ==
    [vault_name |-> vault_name, filepath |-> filepath,
     block_size |-> IF block_size = None THEN DEFAULT_BLOCK ELSE block_size[1],
     description |-> description, crypto_handler |-> crypto_handler,
     upload_id |-> None, archive_id |-> None,
     _chunks |-> <<>>, responses |-> NoResponses]

Upload_to_dict(u) ==
    [vault_name |-> u.vault_name, filepath |-> u.filepath,
     block_size |-> u.block_size, description |-> u.description,
     upload_id |-> u.upload_id, archive_id |-> u.archive_id,
     responses |-> u.responses,
     _chunks |-> [i \in 1..Len(u._chunks) |-> Chunk_to_dict(u._chunks[i])]]

Upload_from_dict(d, crypto_handler) ==
    LET inst0 == MultipartUpload_init(d.vault_name, d.filepath, Some(d.block_size),
                                      d.description, crypto_handler)
        inst1 == [inst0 EXCEPT !.upload_id = d.upload_id,
                               !.archive_id = d.archive_id,
                               !.responses = d.responses]
        cs == [i \in 1..Len(d._chunks) |-> Chunk_from_dict(d._chunks[i], crypto_handler)]
    IN  IF \E i \in 1..Len(cs) : cs[i].raised # "none"
        THEN [raised |-> "SetterError", val |-> inst1]
        ELSE [raised |-> "none",
              val |-> [inst1 EXCEPT !._chunks = [i \in 1..Len(cs) |-> cs[i].val]]]

\* variant: one completed chunk is enough
AllCompleted_some(u) == \E i \in 1..Len(u._chunks) : u._chunks[i].completed

AllCompleted(u) == \A i \in 1..Len(u._chunks) : u._chunks[i].completed

\* the next chunk at or after position i that the for loop does not skip
NextIncomplete(u, i) ==
    LET open == {j \in i..Len(u._chunks) : ~u._chunks[j].completed}
    IN  IF open = {} THEN Len(u._chunks) + 1
        ELSE CHOOSE j \in open : \A k \in open : j <= k

----------------------------------------------------------------------------
(* The snapshots a caller can hand to MultipartUpload.from_dict: sessions   *)
(* whose chunk list partitions the file, saved at any point of an upload.   *)

NumParts == (FileSize + BlockSize - 1) \div BlockSize

SnapChunk(i, encrypted, done, cached) ==
    LET start == (i - 1) * BlockSize
        end == Min(i * BlockSize, FileSize) - 1
    IN  [filepath |-> "file", block_size |-> BlockSize,
         start_loc |-> start, end_loc |-> end,
         completed |-> done, _encrypted |-> encrypted,
         _checksum |-> IF cached
                       THEN Some(calculate_tree_hash(ReadAt("file", start, BlockSize)))
                       ELSE None]

\* a completed chunk always carries its checksum
ChunkStates == {<<TRUE, TRUE>>, <<FALSE, TRUE>>, <<FALSE, FALSE>>}

OpenSnapshots ==
    { [vault_name |-> "vault", filepath |-> "file", block_size |-> BlockSize,
       description |-> "descr", upload_id |-> uid, archive_id |-> None,
       responses |-> [NoResponses EXCEPT !.initialize =
                          IF uid = None THEN None ELSE Some([uploadId |-> uid])],
       _chunks |-> [i \in 1..NumParts |-> SnapChunk(i, e, st[i][1], st[i][2])]] :
      uid \in {None, Some("u1")}, e \in BOOLEAN, st \in [1..NumParts -> ChunkStates] }

\* a session saved after its upload was finished: every chunk completed, the
\* completion acknowledged, the archive id "a0" stored
FinishedSnapshots ==
    { [vault_name |-> "vault", filepath |-> "file", block_size |-> BlockSize,
       description |-> "descr", upload_id |-> Some("u1"), archive_id |-> Some("a0"),
       responses |-> [initialize |-> Some([uploadId |-> Some("u1")]),
                      upload |-> Some([i \in 1..NumParts |->
                          [checksum |-> SnapChunk(i, FALSE, TRUE, TRUE)._checksum]]),
                      finalize |-> Some([checksum |->
                                            Some(calculate_tree_hash(FileBytes("file"))),
                                         archiveId |-> Some("a0")])],
       _chunks |-> [i \in 1..NumParts |-> SnapChunk(i, FALSE, TRUE, TRUE)]] }

Snapshots == OpenSnapshots \cup FinishedSnapshots

CryptoHandlers == {None, Some("key")}

----------------------------------------------------------------------------
(* Control: calls, returns and exceptions *)

Frames == {"initialize", "upload", "upload_loop", "finalize", "wrapper"}

Running(f) == stack # <<>> /\ Head(stack) = f

InWrapper == stack # <<>> /\ stack[Len(stack)] = "wrapper"

\* the running frame returns to its caller
Return == stack' = Tail(stack)

\* exception e leaves the running frame; u is the object at that moment.
\* Only _upload_from_uploader has a handler.
Raise(e, u) ==
    /\ exc' = e
    /\ fail' = [fail EXCEPT !.err = e, !.snap = Some(Upload_to_dict(u)), !.n = fail.n + 1]
    /\ IF InWrapper
       THEN stack' = <<"wrapper">> /\ wpc' = "except"
       ELSE stack' = <<>> /\ wpc' = wpc

NoFail == [err |-> "none", snap |-> None, n |-> 0, dumps0 |-> 0, calls0 |-> 0]

NoPass == [active |-> FALSE, done |-> <<>>, at |-> 0]

\* the local variables of split_file; of the list `chunks` the first MaxPlanned
\* entries are kept and `more` is the parity of the number of entries after them
NoPlan == [cur_position |-> 0, chunks |-> <<>>, unenc_block_size |-> 0, more |-> 0]

\* evaluating self.chunks on an object without chunks enters split_file,
\* which first works out the step between chunk starts
EnterSplit(u) ==
    LET step == IF u.crypto_handler = None
                THEN [raised |-> "none", val |-> u.block_size]
                ELSE get_unenc_block_size(u.block_size)
    IN  IF step.raised # "none"
        THEN Raise(step.raised, u) /\ UNCHANGED plan
        ELSE /\ stack' = <<"split_file">> \o stack
             /\ plan' = [NoPlan EXCEPT !.unenc_block_size = step.val]
             /\ UNCHANGED <<exc, fail, wpc>>

\* no encrypt_stream / decrypt_stream run is under way
NoGenerator == [pc |-> "idle", raised |-> "none"]

\* no call of sign_stream or verify_stream yet
NoCheck == [op |-> "none", raised |-> "none", val |-> None, signature |-> None,
            tamper |-> "none"]

CipherIdle ==
    /\ cin = [plain |-> <<>>, read_total |-> None, key |-> 0, auth_key |-> None]
    /\ enc = NoGenerator
    /\ enc_chunks = <<>>
    /\ last_signature = None
    /\ dec = NoGenerator
    /\ dec_chunks = <<>>
    /\ checked = NoCheck

\* the object as MultipartUpload.__init__ leaves it, before any call
UploadIdleOn(files, bsizes, handlers) ==
    /\ up \in { MultipartUpload_init("vault", f, bs, "descr", ch) :
                f \in files, bs \in bsizes, ch \in handlers }
    /\ stack = <<>>
    /\ idx = 0
    /\ loop_count = 0
    /\ n_tries = DEFAULT_N_TRIES
    /\ lpc = "test"
    /\ wpc = "start"
    /\ plan = NoPlan
    /\ exc = "none"
    /\ ret = None
    /\ calls = <<>>
    /\ dumps = <<>>
    /\ ncalls = 0
    /\ top = "none"
    /\ fail = NoFail
    /\ pass0 = NoPass
    /\ restored = None

UploadIdle(bsizes, handlers) == UploadIdleOn({"file"}, bsizes, handlers)

\* the DerivedKeySetup records that exist before any derivation: one with a
\* signing key, one without, one naming a construct that is not implemented
KEY_SIZE == 32
SIG_KEY_SIZE == 64

DerivedKeySetup(ops, mem, construct, salt_key_enc, salt_key_sig, key_size_enc, key_size_sig) ==
    [ops |-> ops, mem |-> mem, construct |-> construct,
     salt_key_enc |-> salt_key_enc, salt_key_sig |-> salt_key_sig,
     key_size_enc |-> key_size_enc, key_size_sig |-> key_size_sig]

\* cost tiers of argon2i: MIN and SENSITIVE
OpsLimits == [min |-> 3, sensitive |-> 8]

StoredSetups ==
    << DerivedKeySetup(OpsLimits.sensitive, OpsLimits.sensitive, "argon2i",
                       <<21>>, <<22>>, KEY_SIZE, SIG_KEY_SIZE),
       DerivedKeySetup(OpsLimits.sensitive, OpsLimits.sensitive, "argon2i",
                       <<23>>, <<>>, KEY_SIZE, 0),
       DerivedKeySetup(OpsLimits.sensitive, OpsLimits.sensitive, "scrypt",
                       <<24>>, <<25>>, KEY_SIZE, SIG_KEY_SIZE) >>

KdfIdle == setups = StoredSetups /\ derived = <<>>

CatalogIdle == stored = [chunks |-> <<>>, file_size |-> 0] /\ verdict = "none"

Init ==
    /\ UploadIdle({None, Some(BlockSize)}, CryptoHandlers)
    /\ CipherIdle
    /\ KdfIdle
    /\ CatalogIdle

\* the environment calls a method of the object
Invoke ==
    /\ stack = <<>>
    /\ ncalls < MaxCalls
    /\ \E m \in Frames, n \in {1, DEFAULT_N_TRIES} :
        /\ (m # "upload_loop" => n = DEFAULT_N_TRIES) \/ m = "upload_loop"
        /\ stack' = <<m>>
        /\ top' = m
        /\ n_tries' = IF m = "upload_loop" THEN n ELSE DEFAULT_N_TRIES
    /\ ncalls' = ncalls + 1
    /\ idx' = 0
    /\ loop_count' = 0
    /\ lpc' = "test"
    /\ wpc' = "start"
    /\ exc' = "none"
    /\ ret' = None
    /\ fail' = [NoFail EXCEPT !.dumps0 = Len(dumps), !.calls0 = Len(calls)]
    /\ UNCHANGED <<up, plan, calls, dumps, pass0, restored>>
    /\ UNCHANGED notup

\* MultipartUpload.from_dict on a stored snapshot, or on the snapshot of the
\* object itself (a restart of the process)
from_dict ==
    /\ stack = <<>>
    /\ ncalls < MaxCalls
    /\ \E d \in Snapshots \cup {Upload_to_dict(up)}, ch \in CryptoHandlers :
        LET r == Upload_from_dict(d, ch)
        IN  IF r.raised = "none"
            THEN /\ up' = r.val
                 /\ restored' = Some(d)
                 /\ calls' = <<>>
                 /\ pass0' = NoPass
                 /\ exc' = "none"
            ELSE /\ exc' = r.raised
                 /\ UNCHANGED <<up, restored, calls, pass0>>
    /\ ncalls' = ncalls + 1
    /\ top' = "from_dict"
    /\ ret' = None
    /\ fail' = [NoFail EXCEPT !.dumps0 = Len(dumps)]
    /\ UNCHANGED <<stack, idx, loop_count, n_tries, lpc, wpc, plan, dumps>>
    /\ UNCHANGED notup

----------------------------------------------------------------------------
(* MultipartUpload.initialize *)

\* what initiate_multipart_upload can answer; "raise" is a client error
InitiateOutcomes == {[raise |-> FALSE, resp |-> [uploadId |-> Some(u)]] : u \in UploadIds}
                    \cup {[raise |-> FALSE, resp |-> [uploadId |-> None]],
                          [raise |-> TRUE, resp |-> [uploadId |-> None]]}

\* variant: a response without id leaves the id the object had
InitializeStore_keeps_id(u, resp) ==
    [u EXCEPT !.responses.initialize = Some(resp),
              !.upload_id = IF resp.uploadId = None THEN u.upload_id ELSE resp.uploadId]

\* the object after the response was stored and the id taken from it
InitializeStore(u, resp) ==
    [u EXCEPT !.responses.initialize = Some(resp), !.upload_id = resp.uploadId]

initialize ==
    /\ Running("initialize")
    /\ \E o \in InitiateOutcomes :
        /\ calls' = Append(calls, [op |-> "initiate", chunk |-> 0, range |-> <<>>,
                                   body |-> <<>>, checksum |-> <<>>,
                                   uploadId |-> None, size |-> 0,
                                   answer |-> IF o.raise THEN None ELSE Some(o.resp)])
        /\ IF o.raise
           THEN /\ Raise("BackendError", up)
                /\ UNCHANGED up
           ELSE LET u1 == InitializeStore(up, o.resp)
                IN  /\ up' = u1
                    /\ IF u1.upload_id = None
                       THEN Raise("InitFailed", u1)
                       ELSE Return /\ UNCHANGED <<exc, fail, wpc>>
    /\ UNCHANGED <<idx, loop_count, n_tries, lpc, plan, ret, dumps, ncalls, top,
                   pass0, restored>>
    /\ UNCHANGED notup

----------------------------------------------------------------------------
(* MultipartUpload.upload: one pass over the chunks *)

\* what upload_multipart_part can answer for a part with checksum cks
PartOutcomes(cks) == {[raise |-> FALSE, resp |-> [checksum |-> Some(cks)]],
                      [raise |-> FALSE, resp |-> [checksum |-> Some(WrongHash)]],
                      [raise |-> TRUE, resp |-> [checksum |-> None]]}

\* the chunk after the comparison of the acknowledged checksum
\* variant: the chunk is finalized whatever the backend answered
AfterResponse_trusting(c, resp) ==
    Chunk_finalize(Chunk_checksum(c).chunk)

AfterResponse(c, resp) ==
    IF resp.checksum = Some(Chunk_checksum(c).val)
    THEN Chunk_finalize(Chunk_checksum(c).chunk)
    ELSE Chunk_checksum(c).chunk

UploadEnter ==
    IF up.upload_id = None
    THEN /\ Raise("MustInitialize", up)
         /\ UNCHANGED <<up, idx, plan, pass0>>
    ELSE LET u1 == IF up.responses.upload = None
                   THEN [up EXCEPT !.responses.upload = Some(<<>>)]
                   ELSE up
         IN  /\ up' = u1
             /\ pass0' = [active |-> TRUE, at |-> Len(calls),
                          done |-> [i \in 1..Len(up._chunks) |-> up._chunks[i].completed]]
             /\ IF up._chunks = <<>>
                THEN EnterSplit(u1) /\ UNCHANGED idx
                ELSE /\ idx' = NextIncomplete(u1, 1)
                     /\ UNCHANGED <<stack, plan, exc, fail, wpc>>

UploadChunk ==
    LET c0 == up._chunks[idx]
        d == Chunk_data(c0)
    IN  IF d.raised # "none"
        THEN /\ Raise(d.raised, up)
             /\ UNCHANGED <<up, idx, calls>>
        ELSE LET c1 == Chunk_checksum(d.chunk).chunk
                 cks == Chunk_checksum(d.chunk).val
                 u1 == [up EXCEPT !._chunks[idx] = c1]
             IN  /\ calls' = Append(calls,
                        [op |-> "upload_part", chunk |-> idx,
                         range |-> Chunk_pos_range(c1), body |-> d.val,
                         checksum |-> cks, uploadId |-> up.upload_id, size |-> 0])
                 /\ \E o \in PartOutcomes(cks) :
                      IF o.raise
                      THEN /\ Raise("BackendError", u1)
                           /\ up' = u1
                           /\ UNCHANGED idx
                      ELSE LET u2 == [u1 EXCEPT
                                        !._chunks[idx] = AfterResponse(c1, o.resp),
                                        !.responses.upload =
                                            Some(Append(u1.responses.upload[1], o.resp))]
                           IN  /\ up' = u2
                               /\ idx' = NextIncomplete(u2, idx + 1)
                               /\ UNCHANGED <<stack, exc, fail, wpc>>

upload ==
    /\ Running("upload")
    /\ IF idx = 0
       THEN UploadEnter /\ UNCHANGED calls
       ELSE IF idx > Len(up._chunks)
            THEN Return /\ UNCHANGED <<up, idx, calls, exc, fail, wpc, plan, pass0>>
            ELSE UploadChunk /\ UNCHANGED <<plan, pass0>>
    /\ UNCHANGED <<loop_count, n_tries, lpc, ret, dumps, ncalls, top, restored>>
    /\ UNCHANGED notup

----------------------------------------------------------------------------
(* MultipartUpload.upload_loop *)

upload_loop ==
    /\ Running("upload_loop")
    /\ LET lc == IF lpc = "after_upload" THEN loop_count + 1 ELSE loop_count
       IN  /\ loop_count' = lc
           /\ IF up._chunks = <<>>
              THEN EnterSplit(up) /\ lpc' = "test" /\ UNCHANGED idx
              ELSE IF AllCompleted(up)
                   THEN Return /\ lpc' = "test" /\ UNCHANGED <<idx, exc, fail, wpc, plan>>
                   ELSE IF lc >= n_tries
                        THEN Raise("RetriesExhausted", up)
                             /\ lpc' = "test" /\ UNCHANGED <<idx, plan>>
                        ELSE /\ stack' = <<"upload">> \o stack
                             /\ idx' = 0
                             /\ lpc' = "after_upload"
                             /\ UNCHANGED <<exc, fail, wpc, plan>>
    /\ UNCHANGED <<up, n_tries, ret, calls, dumps, ncalls, top, pass0, restored>>
    /\ UNCHANGED notup

----------------------------------------------------------------------------
(* MultipartUpload.finalize *)

CompleteOutcomes(cks) ==
    {[raise |-> FALSE, resp |-> [checksum |-> Some(cks), archiveId |-> Some(a)]] :
        a \in ArchiveIds}
    \cup {[raise |-> FALSE, resp |-> [checksum |-> Some(WrongHash), archiveId |-> None]],
          [raise |-> FALSE, resp |-> [checksum |-> None, archiveId |-> None]],
          [raise |-> TRUE, resp |-> [checksum |-> None, archiveId |-> None]]}

\* the object after the completion response was stored and compared
FinalizeStore(u, resp, total_checksum) ==
    LET u1 == [u EXCEPT !.responses.finalize = Some(resp)]
    IN  IF resp.checksum = Some(total_checksum)
        THEN [u1 EXCEPT !.archive_id = resp.archiveId]
        ELSE u1

finalize ==
    /\ Running("finalize")
    /\ LET total_checksum == calculate_tree_hash(FileBytes(up.filepath))
       IN  /\ calls' = Append(calls,
                  [op |-> "complete", chunk |-> 0, range |-> <<>>, body |-> <<>>,
                   checksum |-> total_checksum, uploadId |-> up.upload_id,
                   size |-> get_file_size(up.filepath)])
           /\ \E o \in CompleteOutcomes(total_checksum) :
                IF o.raise
                THEN Raise("BackendError", up) /\ UNCHANGED up
                ELSE /\ up' = FinalizeStore(up, o.resp, total_checksum)
                     /\ Return
                     /\ UNCHANGED <<exc, fail, wpc>>
    /\ UNCHANGED <<idx, loop_count, n_tries, lpc, plan, ret, dumps, ncalls, top,
                   pass0, restored>>
    /\ UNCHANGED notup

----------------------------------------------------------------------------
(* MultipartChunk.split_file: the loop that builds the chunk list *)

split_file ==
    /\ Running("split_file")
    /\ LET total_size == get_file_size(up.filepath)
           unenc_block_size == plan.unenc_block_size
           end_pos == Min(plan.cur_position + unenc_block_size, total_size)
       IN  IF plan.cur_position <= total_size
           THEN IF ~ChunkInitAssert(up.block_size, plan.cur_position, end_pos - 1)
                THEN /\ Raise("AssertionError", up)
                     /\ UNCHANGED <<up, plan>>
                ELSE /\ plan' = IF Len(plan.chunks) < MaxPlanned
                                 THEN [plan EXCEPT !.cur_position = end_pos,
                                          !.chunks = Append(plan.chunks,
                                             MultipartChunk_init(up.filepath,
                                                 up.block_size, plan.cur_position,
                                                 end_pos - 1, up.crypto_handler))]
                                 ELSE [plan EXCEPT !.cur_position = end_pos,
                                                   !.more = 1 - plan.more]
                     /\ UNCHANGED <<up, stack, exc, fail, wpc>>
           ELSE /\ up' = [up EXCEPT !._chunks = plan.chunks]
                /\ Return
                /\ UNCHANGED <<plan, exc, fail, wpc>>
    /\ UNCHANGED <<idx, loop_count, n_tries, lpc, ret, calls, dumps,
                   ncalls, top, pass0, restored>>
    /\ UNCHANGED notup

\* the chunks property read on an object: it plans the file when the object
\* has no chunk list yet
chunks ==
    /\ stack = <<>>
    /\ top = "none"
    /\ top' = "chunks"
    /\ IF up._chunks = <<>>
       THEN EnterSplit(up)
       ELSE UNCHANGED <<stack, plan, exc, fail, wpc>>
    /\ UNCHANGED <<up, idx, loop_count, n_tries, lpc, ret, calls, dumps, ncalls,
                   pass0, restored>>
    /\ UNCHANGED notup

----------------------------------------------------------------------------
(* VaultStorage._upload_from_uploader and dump_uploader *)

\* variant: nothing is written
dump_uploader_silent(snapshot) == dumps

dump_uploader(snapshot) == Append(dumps, snapshot)

\* the second if of the try block
WrapperArchiveCheck ==
    IF up.archive_id = None
    THEN /\ stack' = <<"upload_loop">> \o stack
         /\ loop_count' = 0
         /\ n_tries' = DEFAULT_N_TRIES
         /\ lpc' = "test"
         /\ wpc' = "call_finalize"
         /\ UNCHANGED <<ret>>
    ELSE /\ ret' = Some(up.archive_id)
         /\ Return
         /\ UNCHANGED <<loop_count, n_tries, lpc, wpc>>

\* the except clause: dump the object, raise the same exception again
WrapperExcept ==
    /\ dumps' = dump_uploader(Upload_to_dict(up))
    /\ stack' = <<>>
    /\ UNCHANGED <<exc, ret, loop_count, n_tries, lpc, wpc>>

_upload_from_uploader ==
    /\ Running("wrapper")
    /\ CASE wpc = "start" ->
              IF up.upload_id = None
              THEN /\ stack' = <<"initialize">> \o stack
                   /\ wpc' = "check_archive"
                   /\ UNCHANGED <<ret, loop_count, n_tries, lpc, dumps>>
              ELSE WrapperArchiveCheck /\ UNCHANGED dumps
         [] wpc = "check_archive" -> WrapperArchiveCheck /\ UNCHANGED dumps
         [] wpc = "call_finalize" ->
              /\ stack' = <<"finalize">> \o stack
              /\ wpc' = "return"
              /\ UNCHANGED <<ret, loop_count, n_tries, lpc, dumps>>
         [] wpc = "return" ->
              /\ ret' = Some(up.archive_id)
              /\ Return
              /\ UNCHANGED <<loop_count, n_tries, lpc, wpc, dumps>>
         [] wpc = "except" -> WrapperExcept
    /\ UNCHANGED <<up, idx, plan, exc, calls, ncalls, top, fail, pass0, restored>>
    /\ UNCHANGED notup

----------------------------------------------------------------------------

Next ==
    \/ Invoke
    \/ from_dict
    \/ initialize
    \/ upload
    \/ upload_loop
    \/ finalize
    \/ split_file
    \/ _upload_from_uploader

Spec == Init /\ [][Next]_vars

\* a sequential program keeps running while it has a step to take
FairSpec == Spec /\ WF_vars(Next)

----------------------------------------------------------------------------
(* Planning alone: split_file on files and part sizes of every kind *)

PlanBlockSizes == {Some(BlockSize), Some(CHUNK_SIZE), Some(CHUNK_SIZE + BlockSize),
                   Some(2 * CHUNK_SIZE)}

PlanInit ==
    /\ UploadIdleOn(DOMAIN FileSizes, PlanBlockSizes, CryptoHandlers)
    /\ CipherIdle
    /\ KdfIdle
    /\ CatalogIdle

PlanNext == chunks \/ split_file

SpecPlan == PlanInit /\ [][PlanNext]_vars

FairSpecPlan == SpecPlan /\ WF_vars(PlanNext)

----------------------------------------------------------------------------
(* CryptoHandler.encrypt_stream and decrypt_stream as generators: each step *)
(* is one resumption by the consumer, up to the next yield or to the end.   *)

PlainBlock == CHUNK_SIZE - OVERHEAD

PlainSizes == {k * PlainBlock + d : k \in 0..(MaxBlocks - 1), d \in {0, 1}}
              \cup {MaxBlocks * PlainBlock}

Plaintext(n) == [i \in 1..n |-> (7 * i + 3) % 256]

\* the limits a caller passes: none, some up to the size of the plaintext, and
\* the plaintext of a part of MaxBlocks chunks, which may be more than is there
ReadTotals(n) == {None} \cup {Some(m) : m \in ({0, 1, PlainBlock, n} \cap 0..n)
                                               \cup {MaxBlocks * PlainBlock}}

\* nacl.utils.random(NONCE_SIZE) can return any value; among them the
\* smallest, one whose last byte is full, and the largest
NonceBases == {[i \in 1..NONCE_SIZE |-> 0],
               [i \in 1..NONCE_SIZE |-> IF i = NONCE_SIZE THEN 255 ELSE 0],
               [i \in 1..NONCE_SIZE |-> 255]}

SecretKeys == {5}
AuthKeys == {None, Some(9)}
BadSignature == <<0, 0, 0, 0>>

NewGenerator == [pc |-> "new", raised |-> "none"]

CryptoInit ==
    /\ UploadIdle({Some(BlockSize)}, {None})
    /\ KdfIdle
    /\ CatalogIdle
    /\ cin \in {[plain |-> Plaintext(n), read_total |-> m, key |-> k, auth_key |-> a] :
                 n \in PlainSizes, m \in UNION {ReadTotals(n2) : n2 \in PlainSizes},
                 k \in SecretKeys, a \in AuthKeys}
    /\ cin.read_total \in ReadTotals(Len(cin.plain))
    /\ enc = NewGenerator
    /\ enc_chunks = <<>>
    /\ last_signature = None
    /\ dec = [pc |-> "idle", raised |-> "none"]
    /\ dec_chunks = <<>>
    /\ checked = NoCheck

\* one round of the for loop of encrypt_stream, st holding its locals
EncryptRound(st) ==
    LET r == _read_in_chunks(cin.plain, st.pos, st.read_yet,
                             Some(CHUNK_SIZE - OVERHEAD), cin.read_total)
        nonce == _chunk_nonce(st.nonce, st.index)
        e == SecretBox_encrypt(cin.key, r.data, nonce.val)
    IN  IF r.data = <<>>
        THEN /\ last_signature' = SetLastSignature(cin.auth_key, Hmac_finalize(st.hmac))
             /\ enc' = [st EXCEPT !.pc = "done"]
             /\ UNCHANGED enc_chunks
        ELSE IF nonce.raised # "none"
             THEN /\ enc' = [st EXCEPT !.pc = "dead", !.raised = nonce.raised,
                                       !.pos = r.pos, !.read_yet = r.read_yet]
                  /\ UNCHANGED <<enc_chunks, last_signature>>
             ELSE /\ enc_chunks' = Append(enc_chunks, e)
                  /\ enc' = [st EXCEPT !.pc = "loop", !.pos = r.pos,
                                       !.read_yet = r.read_yet, !.index = st.index + 1,
                                       !.hmac = Hmac_update(st.hmac, e)]
                  /\ UNCHANGED last_signature

encrypt_stream ==
    /\ enc.pc \in {"new", "loop"}
    /\ IF enc.pc = "new"
       THEN \E nonce \in NonceBases :
               EncryptRound([pc |-> "new", raised |-> "none", nonce |-> nonce,
                             hmac |-> init_hmac(cin.auth_key, FALSE, FALSE).val,
                             pos |-> 0, read_yet |-> 0, index |-> 0])
       ELSE EncryptRound(enc)
    /\ UNCHANGED <<cin, dec, dec_chunks, checked>>
    /\ UNCHANGED notcipher

\* the ciphertext a caller hands to decrypt_stream, sign_stream or
\* verify_stream: what encrypt_stream gave, the same with its last byte
\* changed, or the same without its last chunk
Tampers == {"none", "flip", "drop"}

CipherStream(tamper) ==
    LET whole == Cat(enc_chunks)
    IN  CASE tamper = "none" -> whole
          [] tamper = "flip" ->
                IF whole = <<>> THEN whole
                ELSE [whole EXCEPT ![Len(whole)] = (whole[Len(whole)] + 1) % 256]
          [] tamper = "drop" ->
                IF enc_chunks = <<>> THEN whole
                ELSE Cat(SubSeq(enc_chunks, 1, Len(enc_chunks) - 1))

\* auth_hmac.verify(sig_bytes): the dummy accepts everything, the HMAC takes
\* bytes only
Hmac_verify(h, sig_bytes) ==
    IF h.dummy THEN "none"
    ELSE IF sig_bytes = None THEN "TypeError"
         ELSE IF Hmac_finalize(h) = sig_bytes THEN "none" ELSE "InvalidSignature"

\* variant: the signature is compared after every chunk, before it is yielded
DecryptRound_eager(st) ==
    LET r == _read_in_chunks(CipherStream(st.tamper), st.pos, st.read_yet, None,
                             st.read_total)
        d == SecretBox_decrypt(cin.key, r.data)
        h == Hmac_update(st.hmac, r.data)
    IN  IF r.data = <<>>
        THEN /\ dec' = IF Hmac_verify(st.hmac, st.sig_bytes) = "none"
                       THEN [st EXCEPT !.pc = "done"]
                       ELSE [st EXCEPT !.pc = "dead",
                                       !.raised = Hmac_verify(st.hmac, st.sig_bytes)]
             /\ UNCHANGED dec_chunks
        ELSE IF Hmac_verify(h, st.sig_bytes) # "none"
             THEN /\ dec' = [st EXCEPT !.pc = "dead",
                                       !.raised = Hmac_verify(h, st.sig_bytes)]
                  /\ UNCHANGED dec_chunks
             ELSE IF d.raised # "none"
                  THEN /\ dec' = [st EXCEPT !.pc = "dead", !.raised = d.raised]
                       /\ UNCHANGED dec_chunks
                  ELSE /\ dec_chunks' = Append(dec_chunks, d.val)
                       /\ dec' = [st EXCEPT !.pc = "loop", !.pos = r.pos,
                                            !.read_yet = r.read_yet, !.hmac = h]

\* one round of the for loop of decrypt_stream
DecryptRound(st) ==
    LET r == _read_in_chunks(CipherStream(st.tamper), st.pos, st.read_yet, None,
                             st.read_total)
        d == SecretBox_decrypt(cin.key, r.data)
    IN  IF r.data = <<>>
        THEN /\ dec' = IF Hmac_verify(st.hmac, st.sig_bytes) = "none"
                       THEN [st EXCEPT !.pc = "done"]
                       ELSE [st EXCEPT !.pc = "dead",
                                       !.raised = Hmac_verify(st.hmac, st.sig_bytes)]
             /\ UNCHANGED dec_chunks
        ELSE IF d.raised # "none"
             THEN /\ dec' = [st EXCEPT !.pc = "dead", !.raised = d.raised]
                  /\ UNCHANGED dec_chunks
             ELSE /\ dec_chunks' = Append(dec_chunks, d.val)
                  /\ dec' = [st EXCEPT !.pc = "loop", !.pos = r.pos,
                                       !.read_yet = r.read_yet,
                                       !.hmac = Hmac_update(st.hmac, r.data)]

\* the signatures a caller can pass: none, an empty one, the one
\* encrypt_stream left, a wrong one
Signatures == {None, Some(<<>>), last_signature, Some(BadSignature)}

decrypt_stream ==
    /\ enc.pc = "done"
    /\ dec.pc \in {"idle", "loop"}
    /\ checked.op = "none"
    /\ IF dec.pc = "idle"
       THEN \E signature \in Signatures, tamper \in Tampers :
               LET sig_bytes == IF signature # None /\ signature[1] # <<>>
                                THEN Some(unhexlify(signature[1]))
                                ELSE None
                   h == init_hmac(cin.auth_key, signature # None, signature = None)
               IN  IF h.raised # "none"
                   THEN /\ dec' = [pc |-> "dead", raised |-> h.raised,
                                   signature |-> signature, tamper |-> tamper]
                        /\ UNCHANGED dec_chunks
                   ELSE DecryptRound([pc |-> "new", raised |-> "none",
                                      signature |-> signature, sig_bytes |-> sig_bytes,
                                      tamper |-> tamper,
                                      hmac |-> h.val, read_total |-> None,
                                      pos |-> 0, read_yet |-> 0])
       ELSE DecryptRound(dec)
    /\ UNCHANGED <<cin, enc, enc_chunks, last_signature, checked>>
    /\ UNCHANGED notcipher

\* the loop of the module-level sign_stream and verify_stream: the HMAC after
\* every chunk of the stream was fed to it
RECURSIVE StreamHmac(_, _, _, _)
StreamHmac(h, stream, pos, read_yet) ==
    LET r == _read_in_chunks(stream, pos, read_yet, None, None)
    IN  IF r.data = <<>> THEN h
        ELSE StreamHmac(Hmac_update(h, r.data), stream, r.pos, r.read_yet)

\* CryptoHandler.sign_stream on a stream, once for each encryption
sign_stream ==
    /\ enc.pc = "done"
    /\ dec.pc = "idle"
    /\ checked.op = "none"
    /\ \E tamper \in Tampers :
         LET h == init_hmac(cin.auth_key, TRUE, FALSE)
             done == StreamHmac(h.val, CipherStream(tamper), 0, 0)
         IN  checked' = IF h.raised # "none"
                        THEN [NoCheck EXCEPT !.op = "sign_stream", !.raised = h.raised,
                                             !.tamper = tamper]
                        ELSE [NoCheck EXCEPT !.op = "sign_stream", !.tamper = tamper,
                                    !.val = Some(hexlify(Hmac_finalize(done)[1]))]
    /\ UNCHANGED <<cin, enc, enc_chunks, last_signature, dec, dec_chunks>>
    /\ UNCHANGED notcipher

\* CryptoHandler.verify_stream on a stream and a signature
verify_stream ==
    /\ enc.pc = "done"
    /\ dec.pc = "idle"
    /\ checked.op = "none"
    /\ \E tamper \in Tampers, signature \in Signatures \ {None} :
         LET h == init_hmac(cin.auth_key, TRUE, FALSE)
             sig_bytes == Some(unhexlify(signature[1]))
             done == StreamHmac(h.val, CipherStream(tamper), 0, 0)
         IN  checked' = IF h.raised # "none"
                        THEN [NoCheck EXCEPT !.op = "verify_stream",
                                 !.raised = h.raised, !.tamper = tamper,
                                 !.signature = signature]
                        ELSE [NoCheck EXCEPT !.op = "verify_stream",
                                 !.tamper = tamper, !.signature = signature,
                                 !.val = Some(Hmac_verify(done, sig_bytes) = "none")]
    /\ UNCHANGED <<cin, enc, enc_chunks, last_signature, dec, dec_chunks>>
    /\ UNCHANGED notcipher

CryptoNext == encrypt_stream \/ decrypt_stream \/ sign_stream \/ verify_stream

SpecCrypto == CryptoInit /\ [][CryptoNext]_vars

----------------------------------------------------------------------------
(* create_keys_from_password *)

Passwords == {<<1>>, <<2>>}

\* nacl.utils.random(SALTBYTES): any salt
RandomSalts == {<<31>>, <<32>>}

\* DerivedKeySetup.create_default
create_default(enable_auth_key, salt_enc, salt_sig) ==
    DerivedKeySetup(OpsLimits.sensitive, OpsLimits.sensitive, "argon2i",
                    salt_enc, IF enable_auth_key THEN salt_sig ELSE <<>>,
                    KEY_SIZE, IF enable_auth_key THEN SIG_KEY_SIZE ELSE 0)

\* nacl.pwhash.argon2i.kdf: `size` bytes that depend on every argument
argon2i_kdf(size, password, salt, opslimit, memlimit) ==
    [i \in 1..size |-> (17 * password[1] + 29 * salt[1] + 3 * opslimit + 5 * memlimit + i) % 256]

\* setup = setup or DerivedKeySetup.create_default(...): the object the call
\* works with, as <<identity, record>>; a new object gets the next identity
EffectiveSetups_fresh(sid, enable_auth_key) ==
    {<<Len(setups) + 1, create_default(enable_auth_key, se, ss)>> :
        se \in RandomSalts, ss \in RandomSalts}

EffectiveSetups(sid, enable_auth_key) ==
    IF sid # 0
    THEN {<<sid, setups[sid]>>}
    ELSE {<<Len(setups) + 1, create_default(enable_auth_key, se, ss)>> :
            se \in RandomSalts, ss \in RandomSalts}

\* the body of create_keys_from_password once setup is settled
DeriveKeys(password, setup) ==
    IF setup.construct # "argon2i"
    THEN [raised |-> "AttributeError", key_enc |-> <<>>, key_sig |-> <<>>]
    ELSE [raised |-> "none",
          key_enc |-> argon2i_kdf(setup.key_size_enc, password, setup.salt_key_enc,
                                  setup.ops, setup.mem),
          key_sig |-> IF setup.key_size_sig # 0
                      THEN argon2i_kdf(setup.key_size_sig, password, setup.salt_key_sig,
                                       setup.ops, setup.mem)
                      ELSE <<>>]

create_keys_from_password ==
    /\ Len(derived) < MaxDerive
    /\ \E password \in Passwords, sid \in 0..Len(setups), enable_auth_key \in BOOLEAN :
        \E st \in EffectiveSetups(sid, enable_auth_key) :
            LET k == DeriveKeys(password, st[2])
            IN  /\ setups' = IF st[1] > Len(setups) THEN Append(setups, st[2]) ELSE setups
                /\ derived' = Append(derived,
                       [password |-> password, given |-> sid,
                        record |-> IF sid = 0 THEN None ELSE Some(setups[sid]),
                        raised |-> k.raised, key_enc |-> k.key_enc,
                        key_sig |-> k.key_sig,
                        setup |-> IF k.raised = "none" THEN st[1] ELSE 0,
                        after |-> IF sid = 0 THEN None ELSE Some(setups'[sid])])
    /\ UNCHANGED notkdf

\* the caller changes the cost of a record between two derivations
set_cost ==
    /\ \E sid \in 1..Len(setups) :
        /\ setups[sid].ops # OpsLimits.min
        /\ setups' = [setups EXCEPT ![sid].ops = OpsLimits.min,
                                    ![sid].mem = OpsLimits.min]
    /\ UNCHANGED derived
    /\ UNCHANGED notkdf

KdfNext == create_keys_from_password \/ set_cost

KdfInit ==
    /\ UploadIdle({Some(BlockSize)}, {None})
    /\ CipherIdle
    /\ KdfIdle
    /\ CatalogIdle

SpecKdf == KdfInit /\ [][KdfNext]_vars

----------------------------------------------------------------------------
(* File.verify_chunk_ranges: the check of a file's recorded chunks *)

Chunk(start_offset, size) == [start_offset |-> start_offset, size |-> size]

StartOffsets(cs) == {cs[i].start_offset : i \in 1..Len(cs)}

EndOffsets(cs) == {cs[i].start_offset + cs[i].size : i \in 1..Len(cs)}

SymmetricDifference(A, B) == (A \ B) \cup (B \ A)

\* variant: the end of a chunk is taken to be its last byte
ChunkBoundaries_inclusive(cs, file_size) ==
    LET ends == {cs[i].start_offset + cs[i].size - 1 : i \in 1..Len(cs)}
        sd == SymmetricDifference(StartOffsets(cs), ends)
    IN  IF 0 \notin sd THEN "MissingLeadingChunk"
        ELSE IF file_size \notin sd THEN "SizeMismatch"
             ELSE IF Cardinality(sd) > 2 THEN "NonContiguousChunks"
                  ELSE "ok"

\* the verdict on the chunks cs of a file of file_size bytes
ChunkBoundaries(cs, file_size) ==
    LET sd == SymmetricDifference(StartOffsets(cs), EndOffsets(cs))
    IN  IF 0 \notin sd THEN "MissingLeadingChunk"
        ELSE IF file_size \notin sd THEN "SizeMismatch"
             ELSE IF Cardinality(sd) > 2 THEN "NonContiguousChunks"
                  ELSE "ok"

\* the chunks a catalog can hold for a file
StoredChunks == {Chunk(a, n) : a \in 0..MaxOffset, n \in 0..MaxOffset}
                \cap {c \in [start_offset : 0..MaxOffset, size : 0..MaxOffset] :
                         c.start_offset + c.size <= MaxOffset}

CatalogInit ==
    /\ UploadIdle({Some(BlockSize)}, {None})
    /\ CipherIdle
    /\ KdfIdle
    /\ stored \in [chunks : UNION {[1..n -> StoredChunks] : n \in 0..MaxStored},
                    file_size : 0..MaxOffset]
    /\ verdict = "none"

verify_chunk_ranges ==
    /\ verdict = "none"
    /\ verdict' = ChunkBoundaries(stored.chunks, stored.file_size)
    /\ UNCHANGED stored
    /\ UNCHANGED notcatalog

CatalogNext == verify_chunk_ranges

SpecCatalog == CatalogInit /\ [][CatalogNext]_vars

----------------------------------------------------------------------------
(* Helpers of the properties *)

Last(q) == q[Len(q)]

InStack(f) == \E k \in 1..Len(stack) : stack[k] = f

\* the chunk positions of the upload-part calls issued since the last pass began
IssuedParts ==
    LET q == SelectSeq(SubSeq(calls, pass0.at + 1, Len(calls)),
                       LAMBDA c : c.op = "upload_part")
    IN  [k \in 1..Len(q) |-> q[k].chunk]

RECURSIVE Ascending(_, _)
Ascending(S, from) ==
    IF \A i \in S : i < from THEN <<>>
    ELSE IF from \in S THEN <<from>> \o Ascending(S, from + 1)
         ELSE Ascending(S, from + 1)

\* the chunks that were incomplete when the last pass began, in chunk order
OpenAtPassStart ==
    Ascending({i \in 1..Len(pass0.done) : ~pass0.done[i]}, 1)

PassOver == pass0.active /\ ~InStack("upload")

TotalChecksum == calculate_tree_hash(FileBytes(up.filepath))

FinalizeAcked ==
    /\ up.responses.finalize # None
    /\ up.responses.finalize[1].checksum = Some(TotalChecksum)

----------------------------------------------------------------------------
(* Properties of the upload *)

\* C1: a pass of upload() on an object with upload_id set issues no
\* upload-part call for a chunk that was completed when the pass began and
\* exactly one, in chunk order, for each chunk that was incomplete.
C1_Resumability == PassOver => IssuedParts = OpenAtPassStart

\* C3: archive_id is set only if every chunk is completed, upload_id is set
\* and the backend acknowledged the whole-file checksum.
C3_ArchiveOnlyWhenComplete ==
    up.archive_id # None =>
        /\ AllCompleted(up)
        /\ up.upload_id # None
        /\ FinalizeAcked

\* C4: upload_loop always terminates (by returning or by raising).
C4_LoopTerminates ==
    [](InStack("upload_loop") => <>(~InStack("upload_loop")))

\* C5: when the backend answers an upload-part call, the chunk is completed
\* and its buffer released if the acknowledged checksum equals the cached one;
\* otherwise the chunk stays incomplete, nothing is raised and the pass moves
\* on to the next incomplete chunk.
PartAnswered ==
    /\ Running("upload")
    /\ idx \in 1..Len(up._chunks)
    /\ up.responses.upload # None
    /\ up'.responses.upload # up.responses.upload

WrapperOver == top = "wrapper" /\ stack = <<>>

C6_DumpThenReraise ==
    WrapperOver =>
        IF fail.n > 0
        THEN /\ fail.n = 1
             /\ exc = fail.err
             /\ exc # "none"
             /\ ret = None
             /\ Len(dumps) = fail.dumps0 + 1
             /\ Some(Last(dumps)) = fail.snap
             /\ Last(dumps) = Upload_to_dict(up)
        ELSE exc = "none" /\ Len(dumps) = fail.dumps0

\* the wrapper failed on a backend error after one chunk had been completed
C6_Witness ==
    /\ WrapperOver
    /\ exc = "BackendError"
    /\ Len(dumps) = 1
    /\ \E i \in 1..Len(dumps[1]._chunks) : dumps[1]._chunks[i].completed
    /\ \E i \in 1..Len(dumps[1]._chunks) : ~dumps[1]._chunks[i].completed
    /\ dumps[1].responses.upload # None

\* C7: a wrapper call that met an exhaustion error (retries exhausted, or a
\* completion acknowledgment that does not match) printed a snapshot and ended
\* with an error.
FinalizeMismatch ==
    /\ calls # <<>>
    /\ Last(calls).op = "complete"
    /\ fail.n = 0
    /\ ~FinalizeAcked

C7_ExhaustionDumped ==
    (WrapperOver /\ (exc = "RetriesExhausted" \/ FinalizeMismatch)) =>
        /\ exc # "none"
        /\ Len(dumps) = fail.dumps0 + 1

\* C8: an upload-part call that raises in a pass before the last one does not
\* end upload_loop: the loop goes on to a later pass.
C8_RaiseIsRetried ==
    [][(/\ Running("upload")
        /\ InStack("upload_loop")
        /\ loop_count + 1 < n_tries
        /\ calls' # calls
        /\ exc' = "BackendError")
       => InStack("upload_loop")']_vars

\* C9: restoring the snapshot of the object with its own cipher gives an
\* object with the same fields and the same chunks, and an object restored
\* from a snapshot sends only chunks that were incomplete in the snapshot.
SameChunk(a, b) ==
    /\ a.filepath = b.filepath
    /\ a.block_size = b.block_size
    /\ a.start_loc = b.start_loc
    /\ a.end_loc = b.end_loc
    /\ a.completed = b.completed
    /\ a._encrypted = b._encrypted
    /\ a._checksum = b._checksum

SameSession(a, b) ==
    /\ a.vault_name = b.vault_name
    /\ a.filepath = b.filepath
    /\ a.block_size = b.block_size
    /\ a.description = b.description
    /\ a.upload_id = b.upload_id
    /\ a.archive_id = b.archive_id
    /\ a.responses = b.responses
    /\ Len(a._chunks) = Len(b._chunks)
    /\ \A i \in 1..Len(a._chunks) : SameChunk(a._chunks[i], b._chunks[i])

C9_SnapshotRoundTrip ==
    /\ LET r == Upload_from_dict(Upload_to_dict(up), up.crypto_handler)
       IN  r.raised = "none" /\ SameSession(r.val, up)
    /\ restored # None =>
         \A k \in 1..Len(calls) :
            calls[k].op = "upload_part" => ~restored[1]._chunks[calls[k].chunk].completed

\* an object restored with one chunk completed has sent the other chunk and
\* finished the upload
C9_Witness ==
    /\ restored # None
    /\ Len(restored[1]._chunks) = 2
    /\ restored[1]._chunks[1].completed
    /\ ~restored[1]._chunks[2].completed
    /\ stack = <<>>
    /\ up.archive_id # None
    /\ \E k \in 1..Len(calls) : calls[k].op = "upload_part" /\ calls[k].chunk = 2

----------------------------------------------------------------------------
(* Properties of the stream cipher *)

\* the first m bytes of the plaintext, m being read_total (all of it if None)
ExpectedPlain ==
    IF cin.read_total = None THEN cin.plain
    ELSE SubSeq(cin.plain, 1, Min(cin.read_total[1], Len(cin.plain)))

\* C2: encrypt_stream yields the whole ciphertext of the plaintext (limited
\* to read_total bytes) and decrypt_stream over its concatenation yields
\* chunks whose concatenation is exactly that plaintext.
C2_RoundTrip ==
    /\ enc.raised = "none"
    /\ (dec.pc \in {"done", "dead"} /\ dec.signature = None /\ dec.tamper = "none") =>
          dec.raised = "none" /\ Cat(dec_chunks) = ExpectedPlain

----------------------------------------------------------------------------
(* Properties of the key derivation *)

\* C10: two derivations with the same password and the same parameter
\* record end alike and give the same encryption key and the same signing
\* key; a derivation that is given a record returns that very record and
\* leaves it as it was; the signing key is empty exactly when the record's
\* key_size_sig is 0.
WithRecord(i) == derived[i].given # 0

C10_DerivationDeterministic ==
    /\ \A i, j \in 1..Len(derived) :
         (/\ WithRecord(i) /\ WithRecord(j)
          /\ derived[i].password = derived[j].password
          /\ derived[i].given = derived[j].given
          /\ derived[i].record = derived[j].record)
         => /\ derived[i].raised = derived[j].raised
            /\ derived[i].key_enc = derived[j].key_enc
            /\ derived[i].key_sig = derived[j].key_sig
    /\ \A i \in 1..Len(derived) :
         (WithRecord(i) /\ derived[i].raised = "none")
         => /\ derived[i].setup = derived[i].given
            /\ derived[i].after = derived[i].record
            /\ Len(derived[i].key_enc) = derived[i].record[1].key_size_enc
            /\ (derived[i].key_sig # <<>>) = (derived[i].record[1].key_size_sig # 0)

\* the same password and the same record were used twice, the record asks
\* for a signing key, and both derivations returned
C10_Witness ==
    /\ Len(derived) = 2
    /\ derived[1].given = 1 /\ derived[2].given = 1
    /\ derived[1].password = derived[2].password
    /\ derived[1].record = derived[2].record
    /\ derived[1].raised = "none" /\ derived[2].raised = "none"
    /\ Len(derived[1].key_sig) = SIG_KEY_SIZE
    /\ derived[2].key_enc = derived[1].key_enc

----------------------------------------------------------------------------
(* Properties of the planning *)

ChunkBytes(c) == c.end_loc - c.start_loc + 1

\* the chunks that cover at least one byte
DataChunks(cs) == {i \in 1..Len(cs) : ChunkBytes(cs[i]) > 0}

\* cs lays out a file of total bytes in steps of step bytes
Layout(cs, total, step) ==
    /\ cs # <<>>
    /\ cs[1].start_loc = 0
    /\ \A i \in 2..Len(cs) : cs[i].start_loc = cs[i - 1].end_loc + 1
    /\ DataChunks(cs) # {}
    /\ LET last == CHOOSE i \in DataChunks(cs) : \A j \in DataChunks(cs) : j <= i
       IN  /\ \A i \in 1..(last - 1) : ChunkBytes(cs[i]) = step
           /\ ChunkBytes(cs[last]) \in 1..step
           /\ cs[last].end_loc = total - 1

Planning == InStack("split_file")

\* C11: planning a file that is not empty ends with a chunk list that starts
\* at offset 0, continues each chunk where the one before ended, has `step`
\* bytes in every chunk before the last data chunk and 1..step bytes in that
\* one, and ends at the last byte of the file.
C11_PlanCoversFile ==
    []((Planning /\ get_file_size(up.filepath) > 0)
         => <>(~Planning /\ exc = "none"
                 /\ Layout(up._chunks, get_file_size(up.filepath),
                           plan.unenc_block_size)))

\* C12: split_file terminates, for every file size and every step.
C12_PlanTerminates == [](Planning => <>(~Planning))

C15_UnencBlockSize ==
    (top = "chunks" /\ up.crypto_handler # None) =>
        IF up.block_size % 16384 # 0
        THEN /\ exc = "ValueError"
             /\ stack = <<>>
             /\ up._chunks = <<>>
             /\ plan = NoPlan
        ELSE /\ exc = "none"
             /\ Planning
             /\ plan.unenc_block_size = (up.block_size \div 16384) * (16384 - 40)

\* a part size of two chunks of the cipher gave a step of 32688 bytes
C15_Witness ==
    /\ top = "chunks"
    /\ up.crypto_handler # None
    /\ up.block_size = 32768
    /\ plan.unenc_block_size = 32688

----------------------------------------------------------------------------
(* Properties of the chunk data *)

\* C14: when a pass of upload() comes to an encrypted chunk that holds its
\* cipher, reading the chunk's data ends and the part that is sent carries the
\* ciphertext of the chunk's own bytes (40 bytes more than the plaintext of a
\* chunk that fits one block of the cipher).
C14_EncryptedDataIsSent ==
    [][(/\ Running("upload")
        /\ idx \in 1..Len(up._chunks)
        /\ up._chunks[idx]._encrypted
        /\ up._chunks[idx]._crypto_handler # None)
       => /\ exc' # "RecursionError"
          /\ calls' # calls
          /\ Last(calls').op = "upload_part"
          /\ Last(calls').chunk = idx
          /\ Len(Last(calls').body) = ChunkBytes(up._chunks[idx]) + OVERHEAD]_vars

----------------------------------------------------------------------------
(* Properties of the part size *)

EncryptOver == enc.pc \in {"done", "dead"}

\* the limit is the plaintext size of a part of n bytes, n a positive multiple
\* of 16384
LimitOfPart(n) ==
    /\ cin.read_total # None
    /\ cin.read_total[1] > 0
    /\ cin.read_total[1] % 16344 = 0
    /\ n = (cin.read_total[1] \div 16344) * 16384

\* C16: encrypt_stream limited to the plaintext size of a part of n bytes, on
\* a plaintext that has that many bytes, reads exactly that many bytes and
\* yields chunks of exactly 16384 bytes, n bytes in all; on a shorter
\* plaintext only the last chunk can be shorter and the total is below n.
C16_PartSizeExact ==
    \A n \in {16384 * k : k \in 1..MaxBlocks} :
        (EncryptOver /\ LimitOfPart(n)) =>
            /\ enc.raised = "none"
            /\ \A i \in 1..(Len(enc_chunks) - 1) : Len(enc_chunks[i]) = 16384
            /\ IF Len(cin.plain) >= cin.read_total[1]
               THEN /\ enc.pos = cin.read_total[1]
                    /\ Len(Cat(enc_chunks)) = n
                    /\ \A i \in 1..Len(enc_chunks) : Len(enc_chunks[i]) = 16384
               ELSE Len(Cat(enc_chunks)) < n

----------------------------------------------------------------------------
(* Properties of the check of recorded chunks *)

\* the chunks of cs that hold byte b
Holders(cs, b) ==
    {i \in 1..Len(cs) : cs[i].start_offset <= b /\ b < cs[i].start_offset + cs[i].size}

Extent(cs) == CHOOSE e \in EndOffsets(cs) : \A x \in EndOffsets(cs) : x <= e

Overlap(cs) == \E b \in 0..MaxOffset : Cardinality(Holders(cs, b)) > 1

Gap(cs) == cs # <<>> /\ \E b \in 0..(Extent(cs) - 1) : Holders(cs, b) = {}

NoLeadingChunk(cs) == 0 \notin StartOffsets(cs)

WrongExtent(cs, file_size) == cs = <<>> \/ Extent(cs) # file_size

\* C17: a chunk list with a gap, an overlap, no chunk at offset 0 or an
\* extent that is not the file size is never accepted.
C17_BadChunksRejected ==
    verdict = "ok" =>
        /\ ~Gap(stored.chunks)
        /\ ~Overlap(stored.chunks)
        /\ ~NoLeadingChunk(stored.chunks)
        /\ ~WrongExtent(stored.chunks, stored.file_size)

\* every byte of the file is in exactly one chunk and no chunk holds anything else
Partition(cs, file_size) ==
    /\ \A b \in 0..(file_size - 1) : Cardinality(Holders(cs, b)) = 1
    /\ \A i \in 1..Len(cs) : cs[i].start_offset + cs[i].size <= file_size

Accepted ==
    /\ verdict = "ok"
    /\ SymmetricDifference(StartOffsets(stored.chunks), EndOffsets(stored.chunks))
         = {0, stored.file_size}

\* C18 as stated: every chunk list that partitions [0, file_size) is accepted,
\* for every file size, and the symmetric difference is then {0, file_size}.
C18_PartitionAccepted ==
    (verdict # "none" /\ Partition(stored.chunks, stored.file_size)) => Accepted

\* C18 as amended: the same for a file that is not empty and chunks of at
\* least one byte each.
C18_ProperPartitionAccepted ==
    (/\ verdict # "none"
     /\ stored.file_size > 0
     /\ \A i \in 1..Len(stored.chunks) : stored.chunks[i].size > 0
     /\ Partition(stored.chunks, stored.file_size)) => Accepted

\* three chunks of one byte, recorded out of order, were accepted
C18_Witness ==
    /\ verdict = "ok"
    /\ stored.file_size = 3
    /\ stored.chunks = <<Chunk(1, 1), Chunk(2, 1), Chunk(0, 1)>>

----------------------------------------------------------------------------
(* Signature checks of the cipher *)

DecryptOver == dec.pc \in {"done", "dead"}

\* the hex signature of the stream that decrypt_stream consumed
ConsumedMac ==
    hexlify(Hmac_finalize(StreamHmac(get_auth_hmac_from_key(cin.auth_key[1]),
                                     CipherStream(dec.tamper), 0, 0))[1])

MacDiffers == dec.signature # Some(ConsumedMac)

\* every chunk of the consumed stream was decrypted and yielded
AllDecrypted ==
    Len(dec_chunks) = (Len(CipherStream(dec.tamper)) + CHUNK_SIZE - 1) \div CHUNK_SIZE

NoKeyIsFatal ==
    /\ (DecryptOver /\ dec.signature # None /\ cin.auth_key = None) =>
           dec.raised = "RuntimeError" /\ dec_chunks = <<>>
    /\ (checked.op # "none" /\ cin.auth_key = None) => checked.raised = "RuntimeError"

NoSignatureNoCheck ==
    (DecryptOver /\ dec.signature = None) =>
        /\ dec.raised \in {"none", "CryptoError"}
        /\ dec.hmac = HMACDummy

\* C19: decrypt_stream with a signature fails with RuntimeError on a handler
\* without signing key and with InvalidSignature when the MAC over the
\* consumed ciphertext differs from the signature; without a signature no MAC
\* is checked; sign_stream and verify_stream fail with RuntimeError on a
\* handler without signing key.
C19_SignatureChecked ==
    /\ NoKeyIsFatal
    /\ NoSignatureNoCheck
    /\ (DecryptOver /\ dec.signature # None /\ cin.auth_key # None /\ MacDiffers) =>
           dec.raised = "InvalidSignature"

\* what the code does do: an empty signature ends in the TypeError of
\* verify(None); with a signature that is not empty, a differing MAC makes
\* decrypt_stream fail, with InvalidSignature when every consumed chunk passed
\* the authentication of the cipher and with the CryptoError of the first chunk
\* that did not otherwise
SignatureCheckedAfterChunks ==
    /\ (DecryptOver /\ dec.signature = Some(<<>>) /\ cin.auth_key # None) =>
           dec.raised \in {"TypeError", "CryptoError"}
    /\ (DecryptOver /\ dec.signature \notin {None, Some(<<>>)} /\ cin.auth_key # None
            /\ MacDiffers) =>
           /\ dec.raised \in {"InvalidSignature", "CryptoError"}
           /\ AllDecrypted <=> dec.raised = "InvalidSignature"

----------------------------------------------------------------------------
(* An initiate response without upload id *)

\* the backend calls of the run that the last Invoke started
RunCalls == SubSeq(calls, fail.calls0 + 1, Len(calls))

NoIdResponse == [uploadId |-> None]

\* the run began with an initiate call that was answered without an id
InitiateGaveNoId ==
    /\ top \in {"initialize", "wrapper"}
    /\ RunCalls # <<>>
    /\ RunCalls[1].op = "initiate"
    /\ RunCalls[1].answer = Some(NoIdResponse)

\* C20: when the initiate response carries no upload id, initialize() raises
\* InitFailed, upload_id is unset, the initiate call stays the only backend
\* call of the run (no retry, no part, no completion), the response is in the
\* response log under initialize, and the wrapper does nothing but dump the
\* object, response included, and pass the error on.
C20_NoIdIsFatal ==
    InitiateGaveNoId =>
        /\ exc = "InitFailed"
        /\ up.upload_id = None
        /\ Len(RunCalls) = 1
        /\ up.responses.initialize = Some(NoIdResponse)
        /\ \/ stack = <<"wrapper">> /\ wpc = "except" /\ Len(dumps) = fail.dumps0
           \/ /\ stack = <<>>
              /\ top = "wrapper" =>
                    /\ Len(dumps) = fail.dumps0 + 1
                    /\ dumps[Len(dumps)].upload_id = None
                    /\ dumps[Len(dumps)].responses.initialize = Some(NoIdResponse)

\* a wrapper run ended after an initiate response without id
C20_Witness ==
    /\ InitiateGaveNoId
    /\ top = "wrapper"
    /\ stack = <<>>
    /\ exc = "InitFailed"
    /\ Len(dumps) = fail.dumps0 + 1

----------------------------------------------------------------------------
(* The order of the backend calls *)

\* every part call carries an upload id; in a wrapper run an initiate call can
\* only be the first call and a completion call only the last, issued from
\* the wrapper's own finalize() when no chunk is incomplete
CallsInOrder ==
    /\ \A i \in 1..Len(calls) : calls[i].op = "upload_part" => calls[i].uploadId # None
    /\ top = "wrapper" =>
          \A i \in 1..Len(RunCalls) :
              /\ RunCalls[i].op = "initiate" => i = 1
              /\ RunCalls[i].op = "complete" =>
                    /\ i = Len(RunCalls)
                    /\ wpc \in {"return", "except"}
                    /\ ~InStack("upload_loop")
                    /\ \A j \in 1..Len(up._chunks) : up._chunks[j].completed

\* upload() is entered on an object without upload id
UploadOnUnset == Running("upload") /\ idx = 0 /\ up.upload_id = None

\* C21: no upload-part call is issued while upload_id is unset (upload()
\* raises instead, with no call and the object as it was), and in a run of
\* the wrapper the calls come in the order initiate, parts, complete, the
\* completion call only after upload_loop returned with every chunk completed.
C21_CallOrder ==
    [][/\ CallsInOrder'
       /\ UploadOnUnset =>
             /\ exc' = "MustInitialize"
             /\ ~InStack("upload")'
             /\ up' = up
             /\ calls' = calls]_vars

\* a wrapper run that sent a part and then the completion call
C21_Witness ==
    /\ top = "wrapper"
    /\ Len(RunCalls) >= 2
    /\ RunCalls[Len(RunCalls) - 1].op = "upload_part"
    /\ RunCalls[Len(RunCalls)].op = "complete"

----------------------------------------------------------------------------
(* The upload id is given once *)

\* from_dict puts another session in the place of the object
Restoring == top' = "from_dict" /\ ncalls' = ncalls + 1

InitiateIssued == Len(calls') > Len(calls) /\ Last(calls').op = "initiate"

\* a step of a session that has its upload id keeps the id and issues no
\* initiate call
IdKept == up'.upload_id = up.upload_id /\ ~InitiateIssued

\* C22: once upload_id is set, no operation on the session (initialize(),
\* upload(), upload_loop(), finalize(), the wrapper) changes it or issues
\* another initiate call.
C22_UploadIdOnce ==
    [][(up.upload_id # None /\ ~Restoring) => IdKept]_vars

\* the same for every operation but a direct call of initialize()
IdKeptButByInitialize ==
    [][(up.upload_id # None /\ ~Restoring /\ ~Running("initialize")) => IdKept]_vars

----------------------------------------------------------------------------
(* Completed chunks and cached checksums *)

CompletedChunksAreBare ==
    \A i \in 1..Len(up._chunks) :
        up._chunks[i].completed =>
            up._chunks[i]._data = None /\ up._chunks[i]._checksum # None

ChecksumsStay ==
    \A i \in 1..Len(up._chunks) :
        up._chunks[i]._checksum # None =>
            /\ i <= Len(up'._chunks)
            /\ up'._chunks[i]._checksum = up._chunks[i]._checksum

\* C23: a completed chunk holds no buffered data and has a cached checksum,
\* and the cached checksum of a chunk, once computed, is never changed by an
\* operation on the session.
C23_CompletedAndCached ==
    [][CompletedChunksAreBare' /\ (~Restoring => ChecksumsStay)]_vars

\* a chunk was sent a second time, after a pass in which it was refused, and
\* is completed now
C23_Witness ==
    /\ pass0.active
    /\ \E i \in 1..Len(up._chunks) :
          /\ up._chunks[i].completed
          /\ i <= Len(pass0.done)
          /\ ~pass0.done[i]
          /\ Cardinality({k \in 1..Len(calls) :
                             calls[k].op = "upload_part" /\ calls[k].chunk = i}) >= 2

----------------------------------------------------------------------------
(* Nonces of the sub-chunks *)

\* the nonce a chunk of ciphertext carries in front
NonceOf(chunk) == SubSeq(chunk, 1, NONCE_SIZE)

\* the big-endian successor of a byte string of fixed length; the last
\* one has none
HasSucc(bytes) == \E k \in 1..Len(bytes) : bytes[k] < 255

BigSucc(bytes) ==
    LET k == CHOOSE j \in 1..Len(bytes) :
                 bytes[j] < 255 /\ \A l \in (j + 1)..Len(bytes) : bytes[l] = 255
    IN  [j \in 1..Len(bytes) |->
            IF j < k THEN bytes[j] ELSE IF j = k THEN bytes[k] + 1 ELSE 0]

\* the first chunk carries the base, each later one the successor of the
\* nonce before it
NoncesCount ==
    \A k \in 1..Len(enc_chunks) :
        /\ Len(NonceOf(enc_chunks[k])) = NONCE_SIZE
        /\ IF k = 1 THEN NonceOf(enc_chunks[1]) = enc.nonce
           ELSE /\ HasSucc(NonceOf(enc_chunks[k - 1]))
                /\ NonceOf(enc_chunks[k]) = BigSucc(NonceOf(enc_chunks[k - 1]))

\* C24: the nonce of sub-chunk i is base + i, big-endian in 24 bytes, and
\* the encoding is defined for every base and every index encrypt_stream
\* reaches: no run of encrypt_stream ends in an error of the encoding.
C24_NonceDefined ==
    /\ NoncesCount
    /\ enc.raised = "none"

\* C25: one encrypt_stream run uses one nonce base, drawn before the first
\* read; the index is the number of chunks emitted so far, starting at 0; no
\* two chunks of the run carry the same nonce.
C25_OneBaseDistinctNonces ==
    [][/\ enc.pc # "new" => enc'.nonce = enc.nonce
       /\ enc'.pc # "new" =>
             /\ enc'.index = Len(enc_chunks')
             /\ enc'.nonce \in NonceBases
             /\ enc_chunks' # <<>> => NonceOf(enc_chunks'[1]) = enc'.nonce
       /\ \A i, j \in 1..Len(enc_chunks') :
             i # j => NonceOf(enc_chunks'[i]) # NonceOf(enc_chunks'[j])]_vars

\* a run that emitted MaxBlocks chunks from a base whose last byte is full
C25_Witness ==
    /\ enc.pc = "done"
    /\ Len(enc_chunks) = MaxBlocks
    /\ enc.nonce[NONCE_SIZE] = 255
    /\ enc.nonce[1] = 0

----------------------------------------------------------------------------
(* What a part call carries *)

PartCalls == {k \in 1..Len(calls) : calls[k].op = "upload_part"}

NoEncryptedPartCall ==
    \A k \in PartCalls : ~up._chunks[calls[k].chunk]._encrypted

RangeIsBodyLength ==
    \A k \in PartCalls :
        calls[k].range[2] - calls[k].range[1] + 1 = Len(calls[k].body)

\* the bytes of all parts of the session
RECURSIVE SumBytes(_)
SumBytes(cs) == IF cs = <<>> THEN 0 ELSE ChunkBytes(Head(cs)) + SumBytes(Tail(cs))

CompleteCalls == {k \in 1..Len(calls) : calls[k].op = "complete"}

\* C27: the byte range declared in an upload-part call is as long as the data
\* sent in that call, and the size passed to the completion call is the sum
\* of the data bytes of all parts of the session.
C27_SizesAgree ==
    /\ RangeIsBodyLength
    /\ \A k \in CompleteCalls : calls[k].size = SumBytes(up._chunks)

\* the same for sessions that have their parts
SizesAgreeWithParts ==
    /\ RangeIsBodyLength
    /\ \A k \in CompleteCalls : up._chunks # <<>> => calls[k].size = SumBytes(up._chunks)

----------------------------------------------------------------------------
(* When the signature is compared *)

\* the comparison of the MAC has been made: it failed, or the generator
\* ended after it
Compared ==
    /\ dec.pc \in {"done", "dead"}
    /\ dec.signature # None
    /\ dec.raised \in {"none", "InvalidSignature", "TypeError"}

\* C28: with a signature, decrypt_stream compares the MAC only after the last
\* chunk of ciphertext was consumed and its plaintext yielded; a generator
\* that has chunks left to yield has made no comparison and raised nothing.
C28_ComparedAtTheEnd ==
    /\ Compared =>
          /\ AllDecrypted
          /\ dec.pos = Len(CipherStream(dec.tamper))
    /\ dec.pc = "loop" => dec.raised = "none"

\* a wrong signature was refused after both chunks of plaintext were yielded
C28_Witness ==
    /\ dec.pc = "dead"
    /\ dec.raised = "InvalidSignature"
    /\ dec.signature = Some(BadSignature)
    /\ dec.tamper = "none"
    /\ Len(dec_chunks) = MaxBlocks
    /\ Cat(dec_chunks) = ExpectedPlain

----------------------------------------------------------------------------
(* The wrapper on a session that was started or finished before *)

WrapperStarts == Running("wrapper") /\ wpc = "start"

\* the wrapper returns the archive id with no call and the session untouched
ReturnsArchive ==
    /\ stack' = <<>>
    /\ ret' = Some(up.archive_id)
    /\ exc' = "none"
    /\ up' = up
    /\ calls' = calls
    /\ dumps' = dumps

\* with an upload id and no archive id the wrapper enters upload_loop at
\* once, calls finalize when upload_loop has returned, and no initiate call is
\* issued in a wrapper run while the session has an upload id
ResumesUpload ==
    /\ (WrapperStarts /\ up.upload_id # None /\ up.archive_id = None) =>
          /\ stack' = <<"upload_loop", "wrapper">>
          /\ calls' = calls
          /\ up' = up
    /\ (Running("wrapper") /\ wpc = "call_finalize") =>
          /\ stack' = <<"finalize", "wrapper">>
          /\ calls' = calls
    /\ (InWrapper /\ InitiateIssued) => up.upload_id = None

\* C29: the wrapper on a session whose archive_id is set issues no backend
\* call, leaves the session as it is and returns the archive id; on a session
\* with upload_id and without archive_id it issues no initiate call and goes
\* on to upload_loop and finalize.
C29_WrapperResumes ==
    [][/\ (WrapperStarts /\ up.archive_id # None) => ReturnsArchive
       /\ ResumesUpload]_vars

\* the same for a finished session that has its upload id
FinishedWithIdReturns ==
    [][/\ (WrapperStarts /\ up.archive_id # None /\ up.upload_id # None) =>
             ReturnsArchive
       /\ ResumesUpload]_vars

----------------------------------------------------------------------------
(* The planned chunks as recorded chunks *)

\* a planned chunk list read as the chunks recorded for a file
AsStored(cs) ==
    [i \in 1..Len(cs) |-> Chunk(cs[i].start_loc, cs[i].end_loc - cs[i].start_loc + 1)]

PlanAccepted(cs, file_size) == ChunkBoundaries(AsStored(cs), file_size) = "ok"

\* C30: for every file size and every step, planning ends with a chunk list
\* that, read as recorded chunks (start offset and number of bytes), passes
\* the check of the chunk boundaries for that file size.
C30_PlanIsAccepted ==
    [](Planning => <>(/\ ~Planning
                      /\ exc = "none"
                      /\ PlanAccepted(up._chunks, get_file_size(up.filepath))))

\* what the loop has appended when it first comes to the end of a file that
\* is not empty passes the check; one round later it does not
PlanAcceptedAtEnd ==
    (/\ Planning
     /\ get_file_size(up.filepath) > 0
     /\ plan.cur_position = get_file_size(up.filepath)
     /\ Len(plan.chunks) < MaxPlanned)
    => PlanAccepted(plan.chunks, get_file_size(up.filepath))
          <=> ChunkBytes(Last(plan.chunks)) > 0

====
